---- MODULE Spec2Model ----
(***************************************************************************)
(* A model of unrogue (src/src/main.rs): map generation, the populator,    *)
(* the entity collection with its occupancy rule, combat and death, the    *)
(* visibility gate and the turn loop of main.                              *)
(*                                                                         *)
(* The grid, the room sizes, the iteration budget, the torch radius, the   *)
(* player's hit points and the inventory capacity are scaled down so that  *)
(* the reachable states can be enumerated; the definitions keep the names  *)
(* of the source constants they scale.                                     *)
(***************************************************************************)
EXTENDS Integers, Sequences, FiniteSets, TLC

VARIABLES
    map,                        \* game.map: map[x][y] is a Tile
    objects,                    \* the world collection, a Vec indexed from 0
    rooms,                      \* make_map's list of accepted rooms
    iter,                       \* make_map's loop counter
    messages,                   \* game.messages.messages
    inventory,                  \* game.inventory
    fov,                        \* tcod.fov: the cells the last compute_fov lit
    previous_player_position,   \* main's local
    key,                        \* tcod.key
    action,                     \* the PlayerAction handle_keys returned last
    id,                         \* the index of main's AI loop
    pc                          \* where the program is

vars == <<map, objects, rooms, iter, messages, inventory, fov,
          previous_player_position, key, action, id, pc>>

----------------------------------------------------------------------------
(* Program constants and the bounds that scale them.                       *)

\* main.rs:16 has 80
MAP_WIDTH == 8
\* main.rs:17 has 43
MAP_HEIGHT == 5
\* main.rs:50 has 10
ROOM_MAX_SIZE == 3
\* main.rs:51 has 6
ROOM_MIN_SIZE == 3
\* main.rs:52 has 30
MAX_ROOMS == 3
\* main.rs:53 has 3
MAX_ROOM_MONSTERS == 1
MAX_ROOM_ITEMS == 2
\* main.rs:58 has 10
TORCH_RADIUS == 3
FOV_LIGHT_WALLS == TRUE
PLAYER == 0
\* main.rs:829-830 has 30
PLAYER_MAX_HP == 4
\* main.rs:449 has the literal 26
INVENTORY_CAPACITY == 1
\* the log is unbounded in the program; the loop stops taking input here
MaxMessages == 8

XS == 0..(MAP_WIDTH - 1)
YS == 0..(MAP_HEIGHT - 1)
Cells == XS \X YS

----------------------------------------------------------------------------
(* Option<T> and Vec<T>.                                                   *)

None == <<>>
Some(v) == <<v>>
is_some(o) == o # <<>>
unwrap(o) == o[1]

\* a Vec is a function on 0..len-1
len(v) == Cardinality(DOMAIN v)
vec(e) == [i \in {0} |-> e]
push(v, e) == [i \in 0..len(v) |-> IF i < len(v) THEN v[i] ELSE e]
swap_remove(v, k) == [i \in 0..(len(v) - 2) |-> IF i = k THEN v[len(v) - 1] ELSE v[i]]
\* Iterator::position, given the indices whose elements satisfy the test:
\* the first of them
position(hits) ==
    IF hits = {} THEN None
    ELSE Some(CHOOSE i \in hits : \A j \in hits : i <= j)

min(a, b) == IF a < b THEN a ELSE b
max(a, b) == IF a > b THEN a ELSE b

----------------------------------------------------------------------------
(* Tiles, rectangles, objects.                                             *)

Tile_empty == [blocked |-> FALSE, explored |-> FALSE, block_sight |-> FALSE]
Tile_wall == [blocked |-> TRUE, explored |-> FALSE, block_sight |-> TRUE]

Rect_new(x, y, width, height) ==
    [x1 |-> x, y1 |-> y, x2 |-> x + width, y2 |-> y + height]

center(r) == <<(r.x1 + r.x2) \div 2, (r.y1 + r.y2) \div 2>>

\* intersects_strict: the test with strict comparisons, so that rectangles
\* that only touch do not count
intersects_strict(a, b) ==
    a.x1 < b.x2 /\ a.x2 > b.x1 /\ a.y1 < b.y2 /\ a.y2 > b.y1

intersects(a, b) ==
    a.x1 <= b.x2 /\ a.x2 >= b.x1 /\ a.y1 <= b.y2 /\ a.y2 >= b.y1

Object_new(x, y, char, name, color, blocks) ==
    [x |-> x, y |-> y, char |-> char, color |-> color, name |-> name,
     blocks |-> blocks, alive |-> FALSE,
     fighter |-> None, ai |-> None, item |-> None]

set_position(o, x, y) == [o EXCEPT !.x = x, !.y = y]
pos(o) == <<o.x, o.y>>

\* main.rs:826-834; the start cell (25,23) is scaled to (2,2)
Player ==
    [Object_new(2, 2, "@", "Player", "WHITE", TRUE) EXCEPT
        !.alive = TRUE,
        !.fighter = Some([max_hp |-> PLAYER_MAX_HP, hp |-> PLAYER_MAX_HP,
                          defense |-> 2, power |-> 5, on_death |-> "Player"])]

Orc(x, y) ==
    [Object_new(x, y, "o", "Orc", "DESATURATED_GREEN", TRUE) EXCEPT
        !.fighter = Some([max_hp |-> 10, hp |-> 10, defense |-> 0, power |-> 3,
                          on_death |-> "Monster"]),
        !.ai = Some("Basic"),
        !.alive = TRUE]

Troll(x, y) ==
    [Object_new(x, y, "T", "Troll", "DARKER_GREEN", TRUE) EXCEPT
        !.fighter = Some([max_hp |-> 16, hp |-> 16, defense |-> 1, power |-> 4,
                          on_death |-> "Monster"]),
        !.ai = Some("Basic"),
        !.alive = TRUE]

HealingPotion(x, y) ==
    [Object_new(x, y, "!", "Healing potion", "VIOLET", FALSE) EXCEPT
        !.item = Some("Heal")]

\* one entry of the message log: the text's parts and the colour
Message(kind, who, whom, n, color) ==
    [kind |-> kind, who |-> who, whom |-> whom, n |-> n, color |-> color]

----------------------------------------------------------------------------
(* Occupancy.                                                              *)

is_blocked(x, y, m, objs) ==
    \/ m[x][y].blocked
    \/ \E i \in DOMAIN objs : objs[i].blocks /\ pos(objs[i]) = <<x, y>>

\* move_by_unchecked: the move without the occupancy test
move_by_unchecked(i, dx, dy, m, objs) ==
    [objs EXCEPT ![i] = set_position(@, objs[i].x + dx, objs[i].y + dy)]

move_by(i, dx, dy, m, objs) ==
    LET new_x == objs[i].x + dx
        new_y == objs[i].y + dy
    IN  IF ~is_blocked(new_x, new_y, m, objs)
        THEN [objs EXCEPT ![i] = set_position(@, new_x, new_y)]
        ELSE objs

\* round_unit_truncated: the quotient cast to i32 without round()
round_unit_truncated(v, d2) ==
    IF d2 = 0 \/ v * v < d2 THEN 0 ELSE IF v > 0 THEN 1 ELSE -1

\* (v as f32 / distance).round() as i32 for an integer v and distance =
\* sqrt(d2): 0 when the quotient is NaN or below one half in magnitude,
\* the sign of v otherwise (|v|/sqrt(d2) >= 1/2 iff 4*v*v >= d2)
round_unit(v, d2) ==
    IF d2 = 0 \/ 4 * v * v < d2 THEN 0 ELSE IF v > 0 THEN 1 ELSE -1

move_towards(i, target_x, target_y, m, objs) ==
    LET dx == target_x - objs[i].x
        dy == target_y - objs[i].y
        d2 == dx * dx + dy * dy
    IN  move_by(i, round_unit(dx, d2), round_unit(dy, d2), m, objs)

\* distance_to(other) >= 2.0, on the squared distance
distance_ge_2(a, b) ==
    (b.x - a.x) * (b.x - a.x) + (b.y - a.y) * (b.y - a.y) >= 4

----------------------------------------------------------------------------
(* Combat and death.                                                       *)

\* fighter.map_or(0, |f| f.power) and its like
power_or_0(o) == IF is_some(o.fighter) THEN unwrap(o.fighter).power ELSE 0
defense_or_0(o) == IF is_some(o.fighter) THEN unwrap(o.fighter).defense ELSE 0
hp_positive(o) == IF is_some(o.fighter) THEN unwrap(o.fighter).hp > 0 ELSE FALSE

\* both return the object and the log
player_death(player, msgs) ==
    [object |-> [player EXCEPT !.char = "%", !.color = "DARK_RED"],
     messages |-> Append(msgs, Message("You died!", "", "", 0, "RED"))]

\* monster_death_still_blocks: the transition without clearing blocks
monster_death_still_blocks(monster, msgs) ==
    [object |-> [monster EXCEPT !.char = "%", !.color = "DARK_RED",
                                !.fighter = None, !.ai = None,
                                !.name = "remains of " \o monster.name],
     messages |-> Append(msgs, Message("is dead! You gain experience points.",
                                       monster.name, "",
                                       unwrap(monster.fighter).max_hp, "ORANGE"))]

\* monster_death_keeps_ai: the transition without clearing the AI tag
monster_death_keeps_ai(monster, msgs) ==
    [object |-> [monster EXCEPT !.char = "%", !.color = "DARK_RED",
                                !.blocks = FALSE, !.fighter = None,
                                !.name = "remains of " \o monster.name],
     messages |-> Append(msgs, Message("is dead! You gain experience points.",
                                       monster.name, "",
                                       unwrap(monster.fighter).max_hp, "ORANGE"))]

monster_death(monster, msgs) ==
    [object |-> [monster EXCEPT !.char = "%", !.color = "DARK_RED",
                                !.blocks = FALSE, !.fighter = None, !.ai = None,
                                !.name = "remains of " \o monster.name],
     messages |-> Append(msgs, Message("is dead! You gain experience points.",
                                       monster.name, "",
                                       unwrap(monster.fighter).max_hp, "ORANGE"))]

callback(on_death, object, msgs) ==
    IF on_death = "Player" THEN player_death(object, msgs)
    ELSE monster_death(object, msgs)

take_damage(self, damage, msgs) ==
    LET hit == IF is_some(self.fighter) /\ damage > 0
               THEN [self EXCEPT !.fighter = Some([unwrap(@) EXCEPT !.hp = @ - damage])]
               ELSE self
    IN  IF is_some(hit.fighter) /\ unwrap(hit.fighter).hp <= 0
        THEN callback(unwrap(hit.fighter).on_death, [hit EXCEPT !.alive = FALSE], msgs)
        ELSE [object |-> hit, messages |-> msgs]

\* attack_damage_no_defense: the damage without the target's defense
attack_damage_no_defense(self, target) == power_or_0(self)

attack_damage(self, target) ==
    power_or_0(self) - defense_or_0(target)

\* returns the attacker, the target and the log
attack(self, target, msgs) ==
    LET damage == attack_damage(self, target)
    IN  IF damage > 0
        THEN LET r == take_damage(target, damage,
                          Append(msgs, Message("attacks for hit points.",
                                               self.name, target.name, damage, "WHITE")))
             IN  [self |-> self, target |-> r.object, messages |-> r.messages]
        ELSE [self |-> self, target |-> target,
              messages |-> Append(msgs, Message("attacks but it has no effect!",
                                                self.name, target.name, 0, "WHITE"))]

\* mut_two(first_index, second_index, items) followed by first.attack(second):
\* mut_two's assertion panics on equal indices; otherwise the two entries are
\* written back at their own indices
attack_at(first_index, second_index, objs, msgs) ==
    IF first_index = second_index
    THEN [objects |-> objs, messages |-> msgs, panicked |-> TRUE]
    ELSE LET r == attack(objs[first_index], objs[second_index], msgs)
         IN  [objects |-> [objs EXCEPT ![first_index] = r.self, ![second_index] = r.target],
              messages |-> r.messages, panicked |-> FALSE]

----------------------------------------------------------------------------
(* Map generation and the populator.                                       *)

\* create_room_inclusive: the room carved with its walls, from x1 to x2 and
\* from y1 to y2
create_room_inclusive(room, m) ==
    [x \in XS |-> [y \in YS |->
        IF room.x1 <= x /\ x <= room.x2 /\ room.y1 <= y /\ y <= room.y2
        THEN Tile_empty ELSE m[x][y]]]

create_room(room, m) ==
    [x \in XS |-> [y \in YS |->
        IF room.x1 + 1 <= x /\ x < room.x2 /\ room.y1 + 1 <= y /\ y < room.y2
        THEN Tile_empty ELSE m[x][y]]]

\* create_h_tunnel_unordered: the range taken as x1..x2 without min and max
create_h_tunnel_unordered(x1, x2, y0, m) ==
    [x \in XS |-> [y \in YS |->
        IF y = y0 /\ x1 <= x /\ x <= x2
        THEN Tile_empty ELSE m[x][y]]]

create_h_tunnel(x1, x2, y0, m) ==
    [x \in XS |-> [y \in YS |->
        IF y = y0 /\ min(x1, x2) <= x /\ x <= max(x1, x2)
        THEN Tile_empty ELSE m[x][y]]]

create_v_tunnel(y1, y2, x0, m) ==
    [x \in XS |-> [y \in YS |->
        IF x = x0 /\ min(y1, y2) <= y /\ y <= max(y1, y2)
        THEN Tile_empty ELSE m[x][y]]]

\* place_monster_unchecked: the monster pushed without the occupancy test
place_monster_unchecked(d, m, objs) ==
    push(objs, IF d.orc THEN Orc(d.x, d.y) ELSE Troll(d.x, d.y))

\* one monster of place_objects' first loop; d = [x, y, orc] are its draws
place_monster(d, m, objs) ==
    IF is_blocked(d.x, d.y, m, objs) THEN objs
    ELSE push(objs, IF d.orc THEN Orc(d.x, d.y) ELSE Troll(d.x, d.y))

\* one item of place_objects' second loop; d = [x, y] are its draws
place_item(d, m, objs) ==
    IF is_blocked(d.x, d.y, m, objs) THEN objs
    ELSE push(objs, HealingPotion(d.x, d.y))

RECURSIVE place_monsters(_, _, _, _)
place_monsters(draws, k, m, objs) ==
    IF k > Len(draws) THEN objs
    ELSE place_monsters(draws, k + 1, m, place_monster(draws[k], m, objs))

RECURSIVE place_items(_, _, _, _)
place_items(draws, k, m, objs) ==
    IF k > Len(draws) THEN objs
    ELSE place_items(draws, k + 1, m, place_item(draws[k], m, objs))

\* num_monsters = Len(monsters), num_items = Len(items)
place_objects(room, m, objs, monsters, items) ==
    place_items(items, 1, m, place_monsters(monsters, 1, m, objs))

failed(new_room, rs) == \E k \in 1..Len(rs) : intersects(new_room, rs[k])

\* lines 380-392: the spawn point or the corridor to the previous room
connect(new_room, coin, g) ==
    LET new_x == center(new_room)[1]
        new_y == center(new_room)[2]
    IN  IF g.rooms = <<>>
        THEN [g EXCEPT !.objects[PLAYER] = set_position(@, new_x, new_y)]
        ELSE LET prev_x == center(g.rooms[Len(g.rooms)])[1]
                 prev_y == center(g.rooms[Len(g.rooms)])[2]
             IN  IF coin
                 THEN [g EXCEPT !.map = create_v_tunnel(prev_y, new_y, new_x,
                                            create_h_tunnel(prev_x, new_x, prev_y, @))]
                 ELSE [g EXCEPT !.map = create_h_tunnel(prev_x, new_x, new_y,
                                            create_v_tunnel(prev_y, new_y, prev_x, @))]

\* one iteration of make_map's loop on g = [map, objects, rooms]; d holds the
\* iteration's random draws [width, height, x, y, monsters, items, coin]
make_map_iter(g, d) ==
    LET new_room == Rect_new(d.x, d.y, d.width, d.height)
    IN  IF failed(new_room, g.rooms) THEN g
        ELSE LET carved == create_room(new_room, g.map)
                 placed == place_objects(new_room, carved, g.objects, d.monsters, d.items)
                 linked == connect(new_room, d.coin,
                                   [g EXCEPT !.map = carved, !.objects = placed])
             IN  [linked EXCEPT !.rooms = Append(@, new_room)]

\* the draws the random source can produce
RoomDraws ==
    {r \in [width : ROOM_MIN_SIZE..ROOM_MAX_SIZE, height : ROOM_MIN_SIZE..ROOM_MAX_SIZE,
            x : XS, y : YS] :
        r.x < MAP_WIDTH - r.width /\ r.y < MAP_HEIGHT - r.height}
SeqsUpTo(S, n) == UNION {[1..k -> S] : k \in 0..n}
MonsterDraws(room) ==
    SeqsUpTo([x : (room.x1 + 1)..(room.x2 - 1), y : (room.y1 + 1)..(room.y2 - 1),
              orc : BOOLEAN], MAX_ROOM_MONSTERS)
ItemDraws(room) ==
    SeqsUpTo([x : (room.x1 + 1)..(room.x2 - 1), y : (room.y1 + 1)..(room.y2 - 1)],
             MAX_ROOM_ITEMS - 1)

\* line 361 and main.rs:835
gen_start ==
    [map |-> [x \in XS |-> [y \in YS |-> Tile_wall]],
     objects |-> vec(Player),
     rooms |-> <<>>]

----------------------------------------------------------------------------
(* The visibility gate.                                                    *)

abs(v) == IF v < 0 THEN -v ELSE v

\* the k-th cell of the straight line of n steps from (px,py) to (px+dx,py+dy)
ray_cell(px, py, dx, dy, n, k) ==
    <<px + ((2 * k * dx + n) \div (2 * n)), py + ((2 * k * dy + n) \div (2 * n))>>

\* tcod.fov.compute_fov(x, y, radius, light_walls, Basic): the cells within
\* the radius whose ray from the origin crosses only transparent cells; a
\* cell that blocks sight is lit itself when light_walls is set.  The FOV
\* map's transparency is !block_sight of the tile (main.rs:842-851).
compute_fov(px, py, radius, light_walls, m) ==
    {c \in Cells :
        LET dx == c[1] - px
            dy == c[2] - py
            n == max(abs(dx), abs(dy))
        IN  /\ dx * dx + dy * dy <= radius * radius
            /\ light_walls \/ ~m[c[1]][c[2]].block_sight
            /\ \A k \in 1..(n - 1) :
                  LET r == ray_cell(px, py, dx, dy, n, k)
                  IN  ~m[r[1]][r[2]].block_sight}

is_in_fov(f, x, y) == <<x, y>> \in f

\* lines 501-510: the FOV after render_all
render_fov(f, objs, m, recompute) ==
    IF recompute
    THEN compute_fov(objs[PLAYER].x, objs[PLAYER].y, TORCH_RADIUS, FOV_LIGHT_WALLS, m)
    ELSE f

\* render_tiles_resets: explored written as the visibility, not only set
render_tiles_resets(f, m) ==
    [x \in XS |-> [y \in YS |-> [m[x][y] EXCEPT !.explored = is_in_fov(f, x, y)]]]

\* lines 523-541: the tiles after render_all, given the FOV it reads
render_tiles(f, m) ==
    [x \in XS |-> [y \in YS |->
        IF is_in_fov(f, x, y) THEN [m[x][y] EXCEPT !.explored = TRUE] ELSE m[x][y]]]

----------------------------------------------------------------------------
(* The player's actions and the monsters' policy.                          *)

\* pick_item_up_keeps_item: the item pushed to the inventory without being
\* removed from the objects
pick_item_up_keeps_item(object_id, inv, msgs, objs) ==
    IF Len(inv) >= INVENTORY_CAPACITY
    THEN [objects |-> objs, inventory |-> inv,
          messages |-> Append(msgs, Message("Your inventory is full, cannot pick up",
                                            "", objs[object_id].name, 0, "RED"))]
    ELSE [objects |-> objs,
          inventory |-> Append(inv, objs[object_id]),
          messages |-> Append(msgs, Message("You picked up a", "",
                                            objs[object_id].name, 0, "GREEN"))]

\* pick_item_up_off_by_one: the capacity test with > for >=
pick_item_up_off_by_one(object_id, inv, msgs, objs) ==
    IF Len(inv) > INVENTORY_CAPACITY
    THEN [objects |-> objs, inventory |-> inv,
          messages |-> Append(msgs, Message("Your inventory is full, cannot pick up",
                                            "", objs[object_id].name, 0, "RED"))]
    ELSE [objects |-> swap_remove(objs, object_id),
          inventory |-> Append(inv, objs[object_id]),
          messages |-> Append(msgs, Message("You picked up a", "",
                                            objs[object_id].name, 0, "GREEN"))]

pick_item_up(object_id, inv, msgs, objs) ==
    IF Len(inv) >= INVENTORY_CAPACITY
    THEN [objects |-> objs, inventory |-> inv,
          messages |-> Append(msgs, Message("Your inventory is full, cannot pick up",
                                            "", objs[object_id].name, 0, "RED"))]
    ELSE [objects |-> swap_remove(objs, object_id),
          inventory |-> Append(inv, objs[object_id]),
          messages |-> Append(msgs, Message("You picked up a", "",
                                            objs[object_id].name, 0, "GREEN"))]

\* player_move_or_attack_own_cell: the target searched on the player's cell
\* instead of the destination
player_move_or_attack_own_cell(dx, dy, m, msgs, objs) ==
    LET target_id == position({i \in DOMAIN objs :
                                 /\ is_some(objs[i].fighter)
                                 /\ pos(objs[i]) = pos(objs[PLAYER])})
    IN  IF is_some(target_id)
        THEN attack_at(PLAYER, unwrap(target_id), objs, msgs)
        ELSE [objects |-> move_by(PLAYER, dx, dy, m, objs), messages |-> msgs,
              panicked |-> FALSE]

\* player_move_or_attack_any_target: the target search without the test for
\* combat statistics
player_move_or_attack_any_target(dx, dy, m, msgs, objs) ==
    LET x == objs[PLAYER].x + dx
        y == objs[PLAYER].y + dy
        target_id == position({i \in DOMAIN objs : pos(objs[i]) = <<x, y>>})
    IN  IF is_some(target_id)
        THEN attack_at(PLAYER, unwrap(target_id), objs, msgs)
        ELSE [objects |-> move_by(PLAYER, dx, dy, m, objs), messages |-> msgs, panicked |-> FALSE]

player_move_or_attack(dx, dy, m, msgs, objs) ==
    LET x == objs[PLAYER].x + dx
        y == objs[PLAYER].y + dy
        target_id == position({i \in DOMAIN objs :
                                 is_some(objs[i].fighter) /\ pos(objs[i]) = <<x, y>>})
    IN  IF is_some(target_id)
        THEN attack_at(PLAYER, unwrap(target_id), objs, msgs)
        ELSE [objects |-> move_by(PLAYER, dx, dy, m, objs), messages |-> msgs, panicked |-> FALSE]

\* ai_take_turn_attacks_dead: the policy without the test of the player's hp
ai_take_turn_attacks_dead(monster_id, f, m, msgs, objs) ==
    IF is_in_fov(f, objs[monster_id].x, objs[monster_id].y)
    THEN IF distance_ge_2(objs[monster_id], objs[PLAYER])
         THEN [objects |-> move_towards(monster_id, objs[PLAYER].x, objs[PLAYER].y, m, objs),
               messages |-> msgs, panicked |-> FALSE]
         ELSE attack_at(monster_id, PLAYER, objs, msgs)
    ELSE [objects |-> objs, messages |-> msgs, panicked |-> FALSE]

\* ai_take_turn_reach_2: the policy with > 2.0 for >= 2.0
ai_take_turn_reach_2(monster_id, f, m, msgs, objs) ==
    LET dx == objs[PLAYER].x - objs[monster_id].x
        dy == objs[PLAYER].y - objs[monster_id].y
    IN  IF is_in_fov(f, objs[monster_id].x, objs[monster_id].y)
        THEN IF dx * dx + dy * dy > 4
             THEN [objects |-> move_towards(monster_id, objs[PLAYER].x, objs[PLAYER].y,
                                            m, objs),
                   messages |-> msgs, panicked |-> FALSE]
             ELSE IF hp_positive(objs[PLAYER])
                  THEN attack_at(monster_id, PLAYER, objs, msgs)
                  ELSE [objects |-> objs, messages |-> msgs, panicked |-> FALSE]
        ELSE [objects |-> objs, messages |-> msgs, panicked |-> FALSE]

ai_take_turn(monster_id, f, m, msgs, objs) ==
    IF is_in_fov(f, objs[monster_id].x, objs[monster_id].y)
    THEN IF distance_ge_2(objs[monster_id], objs[PLAYER])
         THEN [objects |-> move_towards(monster_id, objs[PLAYER].x, objs[PLAYER].y, m, objs),
               messages |-> msgs, panicked |-> FALSE]
         ELSE IF hp_positive(objs[PLAYER])
              THEN attack_at(monster_id, PLAYER, objs, msgs)
              ELSE [objects |-> objs, messages |-> msgs, panicked |-> FALSE]
    ELSE [objects |-> objs, messages |-> msgs, panicked |-> FALSE]

Keys == {"AltEnter", "Escape", "Up", "Down", "Left", "Right", "g", "i", "Other", "Default"}
MoveKeys == {"Up", "Down", "Left", "Right"}
key_dx(k) == IF k = "Left" THEN -1 ELSE IF k = "Right" THEN 1 ELSE 0
key_dy(k) == IF k = "Up" THEN -1 ELSE IF k = "Down" THEN 1 ELSE 0

\* handle_keys_ignores_alive: the match without its test of player_alive
handle_keys_ignores_alive(k, m, msgs, inv, objs) ==
    LET same == [objects |-> objs, messages |-> msgs, inventory |-> inv,
                 panicked |-> FALSE]
    IN  IF k = "AltEnter" THEN [action |-> "DidntTakeTurn"] @@ same
        ELSE IF k = "Escape" THEN [action |-> "Exit"] @@ same
        ELSE IF k \in MoveKeys
        THEN LET r == player_move_or_attack(key_dx(k), key_dy(k), m, msgs, objs)
             IN  [action |-> "TookTurn", objects |-> r.objects,
                  messages |-> r.messages, inventory |-> inv,
                  panicked |-> r.panicked]
        ELSE IF k = "g"
        THEN LET item_id == position({i \in DOMAIN objs :
                                         /\ is_some(objs[i].item)
                                         /\ pos(objs[i]) = pos(objs[PLAYER])})
             IN  IF is_some(item_id)
                 THEN [action |-> "DidntTakeTurn", panicked |-> FALSE]
                      @@ pick_item_up(unwrap(item_id), inv, msgs, objs)
                 ELSE [action |-> "DidntTakeTurn"] @@ same
        ELSE IF k = "i"
        THEN [action |-> "TookTurn"] @@ same
        ELSE [action |-> "DidntTakeTurn"] @@ same

\* handle_keys_picks_any: the pick-up search without the test for an item
handle_keys_picks_any(k, m, msgs, inv, objs) ==
    LET player_alive == objs[PLAYER].alive
        same == [objects |-> objs, messages |-> msgs, inventory |-> inv,
                 panicked |-> FALSE]
    IN  IF k = "AltEnter" THEN [action |-> "DidntTakeTurn"] @@ same
        ELSE IF k = "Escape" THEN [action |-> "Exit"] @@ same
        ELSE IF k \in MoveKeys /\ player_alive
        THEN LET r == player_move_or_attack(key_dx(k), key_dy(k), m, msgs, objs)
             IN  [action |-> "TookTurn", objects |-> r.objects,
                  messages |-> r.messages, inventory |-> inv,
                  panicked |-> r.panicked]
        ELSE IF k = "g" /\ player_alive
        THEN LET item_id == position({i \in DOMAIN objs :
                                         pos(objs[i]) = pos(objs[PLAYER])})
             IN  IF is_some(item_id)
                 THEN [action |-> "DidntTakeTurn", panicked |-> FALSE]
                      @@ pick_item_up(unwrap(item_id), inv, msgs, objs)
                 ELSE [action |-> "DidntTakeTurn"] @@ same
        ELSE IF k = "i" /\ player_alive
        THEN [action |-> "TookTurn"] @@ same
        ELSE [action |-> "DidntTakeTurn"] @@ same

\* returns the PlayerAction and the objects, log and inventory it leaves, or
\* that it panicked
handle_keys(k, m, msgs, inv, objs) ==
    LET player_alive == objs[PLAYER].alive
        same == [objects |-> objs, messages |-> msgs, inventory |-> inv,
                 panicked |-> FALSE]
    IN  IF k = "AltEnter" THEN [action |-> "DidntTakeTurn"] @@ same
        ELSE IF k = "Escape" THEN [action |-> "Exit"] @@ same
        ELSE IF k \in MoveKeys /\ player_alive
        THEN LET r == player_move_or_attack(key_dx(k), key_dy(k), m, msgs, objs)
             IN  [action |-> "TookTurn", objects |-> r.objects,
                  messages |-> r.messages, inventory |-> inv,
                  panicked |-> r.panicked]
        ELSE IF k = "g" /\ player_alive
        THEN LET item_id == position({i \in DOMAIN objs :
                                         /\ is_some(objs[i].item)
                                         /\ pos(objs[i]) = pos(objs[PLAYER])})
             IN  IF is_some(item_id)
                 THEN [action |-> "DidntTakeTurn", panicked |-> FALSE]
                      @@ pick_item_up(unwrap(item_id), inv, msgs, objs)
                 ELSE [action |-> "DidntTakeTurn"] @@ same
        ELSE IF k = "i" /\ player_alive
        THEN [action |-> "TookTurn"] @@ same   \* inventory_menu's choice is dropped
        ELSE [action |-> "DidntTakeTurn"] @@ same

----------------------------------------------------------------------------
(* The program: make_map's loop, main's set-up, main's loop.               *)

Welcome == Message("Welcome stranger!", "", "", 0, "RED")

\* one iteration of make_map's for loop (lines 364-395); a rejected candidate
\* makes no further draw
MakeMapIter ==
    /\ pc = "make_map"
    /\ iter < MAX_ROOMS
    /\ \E r \in RoomDraws :
          LET g == [map |-> map, objects |-> objects, rooms |-> rooms]
              new_room == Rect_new(r.x, r.y, r.width, r.height)
              none == [monsters |-> <<>>, items |-> <<>>, coin |-> TRUE]
          IN  IF failed(new_room, rooms)
              THEN LET h == make_map_iter(g, r @@ none)
                   IN  map' = h.map /\ objects' = h.objects /\ rooms' = h.rooms
              ELSE \E monsters \in MonsterDraws(new_room), items \in ItemDraws(new_room),
                      coin \in BOOLEAN :
                      LET h == make_map_iter(g, r @@ [monsters |-> monsters,
                                                       items |-> items, coin |-> coin])
                      IN  map' = h.map /\ objects' = h.objects /\ rooms' = h.rooms
    /\ iter' = iter + 1
    /\ UNCHANGED <<messages, inventory, fov, previous_player_position, key, action, id, pc>>

\* main.rs:837-858: the session state once make_map has returned
MainSetup ==
    /\ pc = "make_map"
    /\ iter = MAX_ROOMS
    /\ messages' = <<Welcome>>
    /\ inventory' = <<>>
    /\ fov' = {}
    /\ previous_player_position' = <<-1, -1>>
    /\ pc' = "loop"
    /\ UNCHANGED <<map, objects, rooms, iter, key, action, id>>

\* the event main reads (line 863): a mouse event, a key press, or nothing
Events == {"Mouse", "Nothing"} \cup (Keys \ {"Default"})
key_after(ev, k) ==
    IF ev = "Mouse" THEN k ELSE IF ev = "Nothing" THEN "Default" ELSE ev

\* fov_recompute_once: the flag set on the first pass only
fov_recompute_once(prev, objs) == prev = <<-1, -1>>

\* line 869: the dirty flag handed to render_all
fov_recompute(prev, objs) == prev # pos(objs[PLAYER])

\* ai_phase_runs_always: the gate without its test of the action
ai_phase_runs_always(objs, act) == objs[PLAYER].alive

\* line 878: whether the AI loop runs after handle_keys
ai_phase_runs(objs, act) == objs[PLAYER].alive /\ act # "DidntTakeTurn"

\* one pass of main's loop up to the AI phase (lines 860-878)
LoopBody ==
    /\ pc = "loop"
    /\ Len(messages) < MaxMessages
    /\ \E ev \in Events :
          LET k == key_after(ev, key)
              f == render_fov(fov, objects, map,
                              fov_recompute(previous_player_position, objects))
              m == render_tiles(f, map)
              r == handle_keys(k, m, messages, inventory, objects)
          IN  /\ key' = k
              /\ fov' = f
              /\ map' = m
              /\ previous_player_position' = pos(objects[PLAYER])
              /\ action' = r.action
              /\ objects' = r.objects
              /\ messages' = r.messages
              /\ inventory' = r.inventory
              /\ pc' = IF r.panicked THEN "panicked"
                       ELSE IF r.action = "Exit" THEN "done"
                       ELSE IF ai_phase_runs(r.objects, r.action) THEN "ai" ELSE "loop"
              /\ id' = 0
    /\ UNCHANGED <<rooms, iter>>

\* one iteration of the AI loop (lines 879-883)
AiStep ==
    /\ pc = "ai"
    /\ id < len(objects)
    /\ LET r == IF is_some(objects[id].ai)
                THEN ai_take_turn(id, fov, map, messages, objects)
                ELSE [objects |-> objects, messages |-> messages, panicked |-> FALSE]
       IN  /\ objects' = r.objects
           /\ messages' = r.messages
           /\ pc' = IF r.panicked THEN "panicked"
                    ELSE IF id + 1 < len(objects) THEN "ai" ELSE "loop"
    /\ id' = id + 1
    /\ UNCHANGED <<map, rooms, iter, inventory, fov, previous_player_position, key, action>>

\* window_closed() ends the loop (line 860)
WindowClosed ==
    /\ pc = "loop"
    /\ pc' = "done"
    /\ UNCHANGED <<map, objects, rooms, iter, messages, inventory, fov,
                   previous_player_position, key, action, id>>

----------------------------------------------------------------------------
(* Generation from nothing, with every draw the random source can make.    *)

InitGen ==
    /\ map = gen_start.map
    /\ objects = gen_start.objects
    /\ rooms = gen_start.rooms
    /\ iter = 0
    /\ messages = <<>>
    /\ inventory = <<>>
    /\ fov = {}
    /\ previous_player_position = <<-1, -1>>
    /\ key = "Default"
    /\ action = "NoAction"
    /\ id = 0
    /\ pc = "make_map"

NextGen == MakeMapIter \/ MainSetup

SpecGen == InitGen /\ [][NextGen]_vars

----------------------------------------------------------------------------
(* The session, started from maps make_map produces.                       *)

RECURSIVE make_map_run(_, _, _)
make_map_run(script, k, g) ==
    IF k > Len(script) THEN g
    ELSE make_map_run(script, k + 1, make_map_iter(g, script[k]))

\* the draws of one iteration
Draw(x, y, monsters, items, coin) ==
    [width |-> ROOM_MIN_SIZE, height |-> ROOM_MIN_SIZE, x |-> x, y |-> y,
     monsters |-> monsters, items |-> items, coin |-> coin]
MDraw(x, y, orc) == [x |-> x, y |-> y, orc |-> orc]
IDraw(x, y) == [x |-> x, y |-> y]

\* a candidate that overlaps the first room, for the iterations left over
Rejected == Draw(0, 0, <<>>, <<>>, TRUE)
Padded(script) == script \o [k \in 1..(MAX_ROOMS - Len(script)) |-> Rejected]

\* the second room's origin: the last column and row a room can start at
X2 == MAP_WIDTH - ROOM_MIN_SIZE - 1
Y2 == MAP_HEIGHT - ROOM_MIN_SIZE - 1

\* the draws of d are draws the random source can make
valid_draw(d) ==
    LET room == Rect_new(d.x, d.y, d.width, d.height)
    IN  /\ [width |-> d.width, height |-> d.height, x |-> d.x, y |-> d.y] \in RoomDraws
        /\ d.monsters \in MonsterDraws(room)
        /\ d.items \in ItemDraws(room)

Scripts ==
    { script \in
        { \* an orc next to the spawn point, a troll in the second room, two items
          Padded(<<Draw(0, 0, <<MDraw(1, 2, TRUE)>>, <<IDraw(2, 2)>>, FALSE),
                   Draw(X2, Y2, <<MDraw(X2 + 2, Y2 + 2, FALSE)>>,
                        <<IDraw(X2 + 1, Y2 + 1)>>, FALSE)>>),
          \* an orc placed on the cell the player is then moved to
          Padded(<<Draw(0, 0, <<MDraw(1, 1, TRUE)>>, <<IDraw(1, 1)>>, TRUE),
                   Draw(X2, Y2, <<>>, <<IDraw(X2 + 1, Y2 + 2)>>, TRUE)>>),
          \* no monster, an item under the player and one in the second room
          Padded(<<Draw(0, 0, <<>>, <<IDraw(1, 1)>>, FALSE),
                   Draw(X2, Y2, <<>>, <<IDraw(X2 + 1, Y2 + 1)>>, TRUE)>>) } :
        \A k \in 1..Len(script) : valid_draw(script[k]) }

Init ==
    /\ \E script \in Scripts :
          LET g == make_map_run(script, 1, gen_start)
          IN  /\ map = g.map
              /\ objects = g.objects
              /\ rooms = g.rooms
    /\ iter = MAX_ROOMS
    /\ messages = <<Welcome>>
    /\ inventory = <<>>
    /\ fov = {}
    /\ previous_player_position = <<-1, -1>>
    /\ key = "Default"
    /\ action = "NoAction"
    /\ id = 0
    /\ pc = "loop"

Next == LoopBody \/ AiStep \/ WindowClosed

Spec == Init /\ [][Next]_vars

----------------------------------------------------------------------------
(* One attack between the player and a monster, over bounded statistics.   *)

\* the largest power, defense and hit points drawn
MaxStat == 5

with_stats(o, hp, defense, power) ==
    [o EXCEPT !.fighter = Some([unwrap(@) EXCEPT !.max_hp = hp, !.hp = hp,
                                                 !.defense = defense, !.power = power])]

\* objects[PLAYER] is the player and objects[1] a monster next to it; id is
\* the attacker's index and the other one is the target
InitAttack ==
    /\ \E power \in 0..MaxStat, defense \in 0..MaxStat, hp \in 1..MaxStat,
          orc \in BOOLEAN, attacker \in {0, 1} :
          LET monster == IF orc THEN Orc(3, 2) ELSE Troll(3, 2)
          IN  /\ id = attacker
              /\ objects =
                   IF attacker = PLAYER
                   THEN push(vec(with_stats(Player, PLAYER_MAX_HP, 2, power)),
                             with_stats(monster, hp, defense, 3))
                   ELSE push(vec(with_stats(Player, hp, defense, 5)),
                             with_stats(monster, 10, 0, power))
    /\ map = gen_start.map
    /\ rooms = <<>>
    /\ iter = 0
    /\ messages = <<Welcome>>
    /\ inventory = <<>>
    /\ fov = {}
    /\ previous_player_position = <<-1, -1>>
    /\ key = "Default"
    /\ action = "NoAction"
    /\ pc = "attack"

\* first.attack(second) on the pair mut_two hands out
AttackCall ==
    /\ pc = "attack"
    /\ LET r == attack_at(id, 1 - id, objects, messages)
       IN  /\ objects' = r.objects
           /\ messages' = r.messages
    /\ pc' = "attacked"
    /\ UNCHANGED <<map, rooms, iter, inventory, fov, previous_player_position,
                   key, action, id>>

NextAttack == AttackCall

SpecAttack == InitAttack /\ [][NextAttack]_vars

----------------------------------------------------------------------------
(* One move_towards call, over every displacement the map allows.          *)

\* objects[PLAYER] stands on the target cell and objects[1] is the mover; the
\* floor is open except for at most one wall
InitMove ==
    /\ \E c \in Cells, t \in Cells :
          /\ c # t
          /\ objects = push(vec(set_position(Player, t[1], t[2])), Orc(c[1], c[2]))
          /\ \E w \in {<<>>} \cup (Cells \ {c, t}) :
                map = [x \in XS |-> [y \in YS |->
                          IF <<x, y>> = w THEN Tile_wall ELSE Tile_empty]]
    /\ rooms = <<>>
    /\ iter = 0
    /\ messages = <<Welcome>>
    /\ inventory = <<>>
    /\ fov = {}
    /\ previous_player_position = <<-1, -1>>
    /\ key = "Default"
    /\ action = "NoAction"
    /\ id = 1
    /\ pc = "move"

\* Object::move_towards(id, objects[PLAYER].x, objects[PLAYER].y, map, objects)
MoveTowardsCall ==
    /\ pc = "move"
    /\ objects' = move_towards(id, objects[PLAYER].x, objects[PLAYER].y, map, objects)
    /\ pc' = "moved"
    /\ UNCHANGED <<map, rooms, iter, messages, inventory, fov,
                   previous_player_position, key, action, id>>

NextMove == MoveTowardsCall

SpecMove == InitMove /\ [][NextMove]_vars

----------------------------------------------------------------------------
(* Properties of the turn loop.                                            *)

\* how many entries of objs equal o
count(objs, o) == Cardinality({i \in DOMAIN objs : objs[i] = o})

\* the AI-tagged entities are the same before and after a step, whatever
\* their indices
SameAiEntities ==
    /\ \A i \in DOMAIN objects :
          is_some(objects[i].ai) => count(objects', objects[i]) = count(objects, objects[i])
    /\ \A i \in DOMAIN objects' :
          is_some(objects'[i].ai) => count(objects, objects'[i]) = count(objects', objects'[i])

\* C1: in an input cycle whose handle_keys result is DidntTakeTurn, no step
\* changes any AI-tagged entity (position, hp or anything else), and the AI
\* loop is not entered.
C1_AiGating ==
    [][action' = "DidntTakeTurn" => (SameAiEntities /\ pc' # "ai")]_vars

\* C1's case: a pick-up has just returned DidntTakeTurn while a living monster
\* stands in the field of view next to the player
C1_Witness ==
    /\ pc = "loop"
    /\ action = "DidntTakeTurn"
    /\ key = "g"
    /\ Len(inventory) > 0
    /\ \E i \in DOMAIN objects :
          /\ is_some(objects[i].ai)
          /\ is_in_fov(fov, objects[i].x, objects[i].y)
          /\ ~distance_ge_2(objects[i], objects[PLAYER])

UiOnlyKeys == {"AltEnter", "i", "Other", "Default"}

\* C2: in an input cycle whose key is UI-only (fullscreen toggle, 'i',
\* an unrecognised key) the AI loop is not entered, no AI-tagged entity changes
\* and the player is not attacked.
C2_UiOnlyNoAi ==
    [][key' \in UiOnlyKeys =>
         /\ pc' # "ai"
         /\ SameAiEntities
         /\ objects'[PLAYER] = objects[PLAYER]]_vars

\* C3: a step that changes an entity's position puts it on a tile that is no
\* wall and holds no other blocking entity; the player's step is the key's
\* unit step and a monster's is at most one cell per axis, and neither is
\* taken when the destination was a wall or held a blocking entity.
wall_at(c) == map[c[1]][c[2]].blocked
blocker_at(objs, c, except) ==
    \E j \in DOMAIN objs : j # except /\ objs[j].blocks /\ pos(objs[j]) = c

C3_MoveOccupancy ==
    [][len(objects') = len(objects) =>
         \A i \in DOMAIN objects :
            pos(objects'[i]) # pos(objects[i]) =>
               /\ ~wall_at(pos(objects'[i]))
               /\ ~blocker_at(objects', pos(objects'[i]), i)
               /\ ~blocker_at(objects, pos(objects'[i]), i)
               /\ abs(objects'[i].x - objects[i].x) <= 1
               /\ abs(objects'[i].y - objects[i].y) <= 1
               /\ i = PLAYER =>
                     /\ key' \in MoveKeys
                     /\ objects'[i].x = objects[i].x + key_dx(key')
                     /\ objects'[i].y = objects[i].y + key_dy(key')
               /\ i # PLAYER =>
                     LET dx == objects[PLAYER].x - objects[i].x
                         dy == objects[PLAYER].y - objects[i].y
                     IN  /\ objects'[i].x = objects[i].x + round_unit(dx, dx * dx + dy * dy)
                         /\ objects'[i].y = objects[i].y + round_unit(dy, dx * dx + dy * dy)]_vars

\* C3's case: the player has just been moved by a movement key
C3_Witness ==
    /\ pc = "ai"
    /\ id = 0
    /\ key \in MoveKeys
    /\ pos(objects[PLAYER]) # previous_player_position

\* C6: a monster is either alive with positive hit points or inert remains
\* (alive=false, glyph '%', not blocking, no combat, no ai); remains are never
\* changed or removed by any later step, never attack or are attacked, do
\* nothing at their turn of the AI loop, and a living player's movement key
\* toward a cell that holds remains and no wall or blocking entity moves the
\* player onto that cell without an attack.
MonsterNames == {"Orc", "Troll"}
RemainsNames == {"remains of Orc", "remains of Troll"}
is_remains(o) == o.name \in RemainsNames

C6_RemainsShape ==
    /\ \A i \in DOMAIN objects :
          /\ objects[i].name \in MonsterNames =>
                /\ objects[i].alive /\ objects[i].blocks
                /\ is_some(objects[i].ai)
                /\ is_some(objects[i].fighter) /\ unwrap(objects[i].fighter).hp > 0
          /\ is_remains(objects[i]) =>
                /\ ~objects[i].alive /\ ~objects[i].blocks /\ objects[i].char = "%"
                /\ objects[i].fighter = None /\ objects[i].ai = None
    /\ \A k \in 1..Len(messages) :
          messages[k].who \notin RemainsNames /\ messages[k].whom \notin RemainsNames

C6_RemainsStep ==
    /\ \A i \in DOMAIN objects :
          is_remains(objects[i]) => count(objects', objects[i]) >= count(objects, objects[i])
    /\ (pc = "ai" /\ is_remains(objects[id])) =>
          (objects' = objects /\ messages' = messages)
    /\ (pc = "loop" /\ pc' # "done" /\ key' \in MoveKeys /\ objects[PLAYER].alive) =>
          LET dest == <<objects[PLAYER].x + key_dx(key'), objects[PLAYER].y + key_dy(key')>>
          IN  (/\ \E i \in DOMAIN objects : is_remains(objects[i]) /\ pos(objects[i]) = dest
               /\ ~wall_at(dest)
               /\ ~blocker_at(objects, dest, PLAYER))
              => (pos(objects'[PLAYER]) = dest /\ messages' = messages)

C6_DeadMonsterInert == []C6_RemainsShape /\ [][C6_RemainsStep]_vars

\* C6's case: the player stands on the cell of a monster's remains
C6_Witness ==
    /\ objects[PLAYER].alive
    /\ \E i \in DOMAIN objects :
          is_remains(objects[i]) /\ pos(objects[i]) = pos(objects[PLAYER])

\* C7: the log holds "You died!" once if the player is dead and never
\* otherwise, and one monster death message per remains in the world; the
\* player is alive exactly while its hit points are positive.
kind_count(kind) == Cardinality({k \in 1..Len(messages) : messages[k].kind = kind})

C7_DeathOnce ==
    /\ kind_count("You died!") = IF objects[PLAYER].alive THEN 0 ELSE 1
    /\ kind_count("is dead! You gain experience points.")
          = Cardinality({i \in DOMAIN objects : is_remains(objects[i])})
    /\ objects[PLAYER].alive = (unwrap(objects[PLAYER].fighter).hp > 0)

\* C7's case: the player has just died in the AI loop, and a living monster
\* whose turn is still to come in this loop stands next to it in the field of view
C7_Witness ==
    /\ pc = "ai"
    /\ ~objects[PLAYER].alive
    /\ \E i \in DOMAIN objects :
          /\ i >= id
          /\ is_some(objects[i].ai)
          /\ is_in_fov(fov, objects[i].x, objects[i].y)
          /\ ~distance_ge_2(objects[i], objects[PLAYER])

\* C8: the inventory never holds more than its capacity (26 in the source,
\* INVENTORY_CAPACITY here); a pick-up by a living player standing on an item
\* with the inventory at capacity leaves the world collection and the
\* inventory as they were and appends exactly one "inventory is full" message.
item_under_player ==
    \E i \in DOMAIN objects :
       is_some(objects[i].item) /\ pos(objects[i]) = pos(objects[PLAYER])

C8_FullStep ==
    (/\ pc = "loop" /\ pc' # "done" /\ key' = "g"
     /\ objects[PLAYER].alive
     /\ Len(inventory) >= INVENTORY_CAPACITY
     /\ item_under_player)
    => /\ objects' = objects
       /\ inventory' = inventory
       /\ Len(messages') = Len(messages) + 1
       /\ SubSeq(messages', 1, Len(messages)) = messages
       /\ messages'[Len(messages')].kind = "Your inventory is full, cannot pick up"
       /\ pc' = "loop"

C8_InventoryCapacity ==
    [](Len(inventory) <= INVENTORY_CAPACITY) /\ [][C8_FullStep]_vars

\* C8's case: a pick-up was just refused with the inventory at capacity
C8_Witness ==
    /\ key = "g"
    /\ Len(inventory) = INVENTORY_CAPACITY
    /\ item_under_player
    /\ messages[Len(messages)].kind = "Your inventory is full, cannot pick up"

\* C9: no step clears a tile's explored flag; a pass of the main loop (its
\* render pass) sets it for exactly the tiles in the field of view it reads
\* and leaves the other tiles' flags alone; no other step writes it.
explored_cells(m) == {c \in Cells : m[c[1]][c[2]].explored}

C9_ExploredStep ==
    /\ explored_cells(map) \subseteq explored_cells(map')
    /\ pc = "loop" => explored_cells(map') = explored_cells(map) \cup fov'
    /\ pc # "loop" => explored_cells(map') = explored_cells(map)

C9_ExploredRatchet == [][C9_ExploredStep]_vars

\* C9's case: a tile that is explored and no longer in the field of view
C9_Witness ==
    /\ fov # {}
    /\ \E c \in explored_cells(map) : c \notin fov

----------------------------------------------------------------------------
(* Properties of one attack (SpecAttack).                                  *)

DeathKinds == {"You died!", "is dead! You gain experience points."}

\* what an attack step appends to the log
appended == SubSeq(messages', Len(messages) + 1, Len(messages'))

\* the attacker is untouched and exactly one attack message is appended, a hit
\* with the damage p - d when that is positive and "no effect" otherwise;
\* whatever follows it is a death message
AttackLogged(p, d) ==
    /\ objects'[id] = objects[id]
    /\ SubSeq(messages', 1, Len(messages)) = messages
    /\ Len(appended) >= 1
    /\ appended[1] = IF p - d > 0
                     THEN Message("attacks for hit points.", objects[id].name,
                                  objects[1 - id].name, p - d, "WHITE")
                     ELSE Message("attacks but it has no effect!", objects[id].name,
                                  objects[1 - id].name, 0, "WHITE")
    /\ \A k \in 2..Len(appended) : appended[k].kind \in DeathKinds

\* C4 as stated: after every attack the target has hit points, and they are
\* hp_before - max(0, p - d); the attacker is unchanged and one attack message
\* (hit or no effect) is appended.
C4_Original ==
    [][pc = "attack" =>
         LET p == unwrap(objects[id].fighter).power
             t == unwrap(objects[1 - id].fighter)
         IN  /\ AttackLogged(p, t.defense)
             /\ is_some(objects'[1 - id].fighter)
             /\ unwrap(objects'[1 - id].fighter).hp = t.hp - max(0, p - t.defense)]_vars

\* C4 amended: the same, except that a target with the Monster death policy
\* whose hit points reach <= 0 has no combat statistics (hence no hp) after
\* the attack; every other target has hp_before - max(0, p - d).
C4_AttackDamage ==
    [][pc = "attack" =>
         LET p == unwrap(objects[id].fighter).power
             t == unwrap(objects[1 - id].fighter)
             reached == t.hp - max(0, p - t.defense)
         IN  /\ AttackLogged(p, t.defense)
             /\ IF t.on_death = "Monster" /\ reached <= 0
                THEN objects'[1 - id].fighter = None
                ELSE /\ is_some(objects'[1 - id].fighter)
                     /\ unwrap(objects'[1 - id].fighter) = [t EXCEPT !.hp = reached]]_vars

\* C4's case: power 5 against defense 2 has taken exactly 3 hit points from a
\* target that started at its maximum
C4_Witness ==
    /\ pc = "attacked"
    /\ unwrap(objects[id].fighter).power = 5
    /\ is_some(objects[1 - id].fighter)
    /\ unwrap(objects[1 - id].fighter).defense = 2
    /\ unwrap(objects[1 - id].fighter).hp = unwrap(objects[1 - id].fighter).max_hp - 3
    /\ Len(messages) = 2

\* C5 as stated: after every attack the target is not alive exactly when its
\* hit points reached <= 0, and then its combat statistics and AI tag are both
\* cleared.
C5_Original ==
    [][pc = "attack" =>
         LET p == unwrap(objects[id].fighter).power
             t == unwrap(objects[1 - id].fighter)
             reached == t.hp - max(0, p - t.defense)
         IN  /\ objects'[1 - id].alive = (reached > 0)
             /\ reached <= 0 => /\ objects'[1 - id].fighter = None
                                /\ objects'[1 - id].ai = None]_vars

\* C5 amended: the target is not alive exactly when its hit points reached
\* <= 0; a monster that died has its combat statistics and AI tag cleared in
\* that step; the player that died keeps its combat statistics, with the
\* hit points reached, and has no AI tag (it never had one).
C5_DeathTransition ==
    [][pc = "attack" =>
         LET p == unwrap(objects[id].fighter).power
             t == unwrap(objects[1 - id].fighter)
             reached == t.hp - max(0, p - t.defense)
         IN  /\ objects'[1 - id].alive = (reached > 0)
             /\ (reached <= 0 /\ t.on_death = "Monster") =>
                   /\ objects'[1 - id].fighter = None
                   /\ objects'[1 - id].ai = None
             /\ (reached <= 0 /\ t.on_death = "Player") =>
                   /\ objects'[1 - id].fighter = Some([t EXCEPT !.hp = reached])
                   /\ objects'[1 - id].ai = None
             /\ reached > 0 =>
                   /\ is_some(objects'[1 - id].fighter)
                   /\ objects'[1 - id].ai = objects[1 - id].ai]_vars

\* C5's case: a monster has been killed by the attack with negative hit points
\* reached (one hit point left against damage 3 or more would do; here the
\* monster's statistics are gone and the death message is in the log)
C5_Witness ==
    /\ pc = "attacked"
    /\ id = PLAYER
    /\ ~objects[1].alive
    /\ objects[1].fighter = None
    /\ objects[1].ai = None
    /\ messages[Len(messages)].kind = "is dead! You gain experience points."

----------------------------------------------------------------------------
(* Properties of map generation (SpecGen).                                 *)

\* the closed rectangles [x1,x2] x [y1,y2] of a and b share no point
apart(a, b) == a.x2 < b.x1 \/ b.x2 < a.x1 \/ a.y2 < b.y1 \/ b.y2 < a.y1

C10_RoomsApart ==
    \A k \in 1..Len(rooms) : \A l \in 1..Len(rooms) :
       k # l => apart(rooms[k], rooms[l])

\* an iteration either accepts its candidate, appending it to the rooms, or
\* skips it and leaves the rooms, the tiles and the entities as they were;
\* either way it is used up
C10_IterationStep ==
    iter' # iter =>
       /\ iter' = iter + 1
       /\ \/ rooms' = rooms /\ map' = map /\ objects' = objects
          \/ /\ Len(rooms') = Len(rooms) + 1
             /\ SubSeq(rooms', 1, Len(rooms)) = rooms
             /\ \A k \in 1..Len(rooms) : apart(rooms'[Len(rooms')], rooms[k])

\* C10: any two accepted rooms have closed rectangles that share no point, not
\* even an edge or a corner; each iteration of the budget accepts one
\* candidate apart from all earlier rooms or skips its candidate, and is not
\* repeated.
C10_RoomNonOverlap == []C10_RoomsApart /\ [][C10_IterationStep]_vars

\* C10's case: generation is over with two rooms accepted and at least one
\* candidate skipped
C10_Witness ==
    /\ pc = "loop"
    /\ iter = MAX_ROOMS
    /\ Len(rooms) >= 2
    /\ Len(rooms) < iter

\* c and d are 4-adjacent
adjacent(c, d) == abs(c[1] - d[1]) + abs(c[2] - d[2]) = 1

\* the non-blocked tiles reached from the cells of seen through 4-adjacent
\* non-blocked tiles
RECURSIVE flood(_, _)
flood(seen, m) ==
    LET more == {c \in Cells \ seen :
                    ~m[c[1]][c[2]].blocked /\ \E d \in seen : adjacent(c, d)}
    IN  IF more = {} THEN seen ELSE flood(seen \cup more, m)

\* C11: once a room is accepted, the player stands on the center of the first
\* accepted room, that tile is not blocked, and the center of every accepted
\* room is reached from it through 4-adjacent non-blocked tiles; this holds
\* after every iteration and so when generation is over.
C11_SpawnConnected ==
    rooms # <<>> =>
       LET spawn == pos(objects[PLAYER])
       IN  /\ spawn = center(rooms[1])
           /\ ~map[spawn[1]][spawn[2]].blocked
           /\ \A k \in 1..Len(rooms) : center(rooms[k]) \in flood({spawn}, map)

\* C11's case: generation is over with a second room to the left of the first
\* one and on another row, joined by a corridor
C11_Witness ==
    /\ pc = "loop"
    /\ Len(rooms) >= 2
    /\ center(rooms[2])[1] < center(rooms[1])[1]
    /\ center(rooms[2])[2] # center(rooms[1])[2]
    /\ center(rooms[2]) \in flood({pos(objects[PLAYER])}, map)

\* what the populator adds in an iteration that accepts its room
C17_Step ==
    rooms' # rooms =>
       LET room == rooms'[Len(rooms')]
           old == DOMAIN objects
           added == DOMAIN objects' \ DOMAIN objects
           monsters == {i \in added : is_some(objects'[i].ai)}
           items == {i \in added : is_some(objects'[i].item)}
       IN  /\ DOMAIN objects \subseteq DOMAIN objects'
           /\ \A j \in old : j # PLAYER => objects'[j] = objects[j]
           /\ added = monsters \cup items
           /\ Cardinality(monsters) <= MAX_ROOM_MONSTERS
           /\ Cardinality(items) < MAX_ROOM_ITEMS
           /\ \A i \in added :
                 LET o == objects'[i]
                 IN  /\ room.x1 < o.x /\ o.x < room.x2
                     /\ room.y1 < o.y /\ o.y < room.y2
                     /\ ~create_room(room, map)[o.x][o.y].blocked
                     /\ \A j \in old : ~(objects[j].blocks /\ pos(objects[j]) = pos(o))
                     /\ \A j \in added :
                           j < i => ~(objects'[j].blocks /\ pos(objects'[j]) = pos(o))
           /\ \A i \in monsters :
                 /\ objects'[i].blocks /\ objects'[i].alive
                 /\ is_some(objects'[i].fighter)
                 /\ objects'[i].item = None
           /\ \A i \in items :
                 /\ ~objects'[i].blocks
                 /\ objects'[i].fighter = None
                 /\ objects'[i].ai = None

\* C17: every entity the populator adds for an accepted room lies strictly
\* inside the room, on a cell that at its placement was no wall and held no
\* blocking entity (one there before the call or one added earlier in it); it
\* adds at most MAX_ROOM_MONSTERS monsters and fewer than MAX_ROOM_ITEMS
\* items; a monster blocks, is alive and has combat statistics and the AI
\* tag; an item does not block and has neither; no other entity is touched
\* but the player, which make_map moves.
C17_Populator == [][C17_Step]_vars

\* C17's case: two rooms have been populated, each with a monster and an
\* item, the first one while the player stood inside it
C17_Witness ==
    /\ Len(rooms) = 2
    /\ rooms[1].x1 < Player.x /\ Player.x < rooms[1].x2
    /\ rooms[1].y1 < Player.y /\ Player.y < rooms[1].y2
    /\ \A k \in 1..2 :
          /\ \E i \in DOMAIN objects :
                /\ is_some(objects[i].ai)
                /\ rooms[k].x1 < objects[i].x /\ objects[i].x < rooms[k].x2
          /\ \E i \in DOMAIN objects :
                /\ is_some(objects[i].item)
                /\ rooms[k].x1 < objects[i].x /\ objects[i].x < rooms[k].x2

----------------------------------------------------------------------------
(* Properties of the player's and the monsters' turns (Spec).              *)

\* a pass of the loop in which a living player's movement key is handled
MoveKeyHandled ==
    /\ pc = "loop"
    /\ pc' # "done"
    /\ key' \in MoveKeys
    /\ objects[PLAYER].alive

\* the cell a movement key points at
destination == <<objects[PLAYER].x + key_dx(key'), objects[PLAYER].y + key_dy(key')>>

\* the messages a step appends
logged == SubSeq(messages', Len(messages) + 1, Len(messages'))

\* attacker a has attacked target t once in this step: one attack message
\* naming both, then at most the target's death message; the target loses
\* max(0, power - defense) hit points or, a monster brought to <= 0, its
\* combat statistics
attacked_once(a, t) ==
    LET p == unwrap(objects[a].fighter).power
        f == unwrap(objects[t].fighter)
        reached == f.hp - max(0, p - f.defense)
    IN  /\ SubSeq(messages', 1, Len(messages)) = messages
        /\ Len(logged) = IF reached <= 0 THEN 2 ELSE 1
        /\ logged[1] = IF p - f.defense > 0
                       THEN Message("attacks for hit points.", objects[a].name,
                                    objects[t].name, p - f.defense, "WHITE")
                       ELSE Message("attacks but it has no effect!", objects[a].name,
                                    objects[t].name, 0, "WHITE")
        /\ IF f.on_death = "Monster" /\ reached <= 0
           THEN objects'[t].fighter = None
           ELSE objects'[t].fighter = Some([f EXCEPT !.hp = reached])
        /\ objects'[t].alive = (reached > 0)

C12_Step ==
    MoveKeyHandled =>
       LET targets == {i \in DOMAIN objects :
                          is_some(objects[i].fighter) /\ pos(objects[i]) = destination}
       IN  /\ DOMAIN objects' = DOMAIN objects
           /\ IF targets # {}
              THEN /\ objects'[PLAYER] = objects[PLAYER]
                   /\ \E t \in targets :
                         /\ t # PLAYER
                         /\ attacked_once(PLAYER, t)
                         /\ pos(objects'[t]) = pos(objects[t])
                         /\ \A i \in DOMAIN objects : i # t => objects'[i] = objects[i]
              ELSE /\ messages' = messages
                   /\ \A i \in DOMAIN objects :
                         /\ objects'[i].fighter = objects[i].fighter
                         /\ i # PLAYER => objects'[i] = objects[i]
                   /\ pos(objects'[PLAYER]) =
                         IF wall_at(destination) \/ blocker_at(objects, destination, PLAYER)
                         THEN pos(objects[PLAYER]) ELSE destination

\* C12: when a living player's movement key is handled, either an entity with
\* combat statistics stands on the destination cell, and then the player
\* attacks that entity once and nothing else changes (the player does not
\* move); or none does, and then no hit points change, nothing is logged, and
\* the player is on the destination cell afterwards exactly when that cell is
\* neither a wall nor held by a blocking entity.
C12_MoveOrAttack == [][C12_Step]_vars

\* C12's case: the player's movement key has just killed the monster on the
\* destination cell and the player has stayed where it was
C12_Witness ==
    /\ pc = "ai"
    /\ id = 0
    /\ key \in MoveKeys
    /\ pos(objects[PLAYER]) = previous_player_position
    /\ messages[Len(messages)].kind = "is dead! You gain experience points."
    /\ \E i \in DOMAIN objects :
          /\ is_remains(objects[i])
          /\ pos(objects[i]) = <<objects[PLAYER].x + key_dx(key),
                                 objects[PLAYER].y + key_dy(key)>>

\* the step move_towards takes from cell a toward cell b
unit_step(a, b) ==
    LET dx == b[1] - a[1]
        dy == b[2] - a[2]
    IN  <<round_unit(dx, dx * dx + dy * dy), round_unit(dy, dx * dx + dy * dy)>>

\* the turn of the entity at index id in the AI loop
C13_Turn ==
    LET me == objects[id]
        player == objects[PLAYER]
        d2 == (player.x - me.x) * (player.x - me.x) + (player.y - me.y) * (player.y - me.y)
        step == unit_step(pos(me), pos(player))
        to == <<me.x + step[1], me.y + step[2]>>
    IN  /\ DOMAIN objects' = DOMAIN objects
        /\ \A i \in DOMAIN objects : (i # id /\ i # PLAYER) => objects'[i] = objects[i]
        /\ IF ~is_some(me.ai) \/ pos(me) \notin fov
           THEN objects' = objects /\ messages' = messages
           ELSE IF d2 >= 4
           THEN /\ messages' = messages
                /\ objects'[PLAYER] = player
                /\ objects'[id] =
                      IF wall_at(to) \/ blocker_at(objects, to, id)
                      THEN me ELSE set_position(me, to[1], to[2])
           ELSE IF player.alive
           THEN /\ objects'[id] = me
                /\ attacked_once(id, PLAYER)
                /\ pos(objects'[PLAYER]) = pos(player)
           ELSE objects' = objects /\ messages' = messages

C13_Step ==
    /\ (pc = "loop" /\ pc' = "ai") => id' = 0
    /\ pc = "ai" =>
          /\ id \in DOMAIN objects
          /\ id' = id + 1
          /\ pc' = IF id' \in DOMAIN objects THEN "ai" ELSE "loop"
          /\ C13_Turn

\* C13: the AI loop starts at index 0 and each of its steps takes the next
\* index up to the last; the entity at that index does one thing at most: with
\* its cell in the field of view and the player at distance >= 2 it takes the
\* move_towards step (or stays when that cell is blocked) and nothing is
\* logged or hurt; in the field of view, nearer than 2 and the player alive, it
\* attacks the player once and stays; out of the field of view, or without the
\* AI tag, it changes nothing.
C13_AiPolicy == [][C13_Step]_vars

\* C13's case: the monster before index id, in the field of view and next to
\* the living player, has just attacked it, and a monster still to be visited
\* is out of the field of view
C13_Witness ==
    /\ pc = "ai"
    /\ id >= 2
    /\ objects[PLAYER].alive
    /\ is_some(objects[id - 1].ai)
    /\ pos(objects[id - 1]) \in fov
    /\ ~distance_ge_2(objects[id - 1], objects[PLAYER])
    /\ messages[Len(messages)] =
          Message("attacks for hit points.", objects[id - 1].name, "Player",
                  unwrap(objects[id - 1].fighter).power - 2, "WHITE")
    /\ \E i \in DOMAIN objects :
          is_some(objects[i].ai) /\ i >= id /\ pos(objects[i]) \notin fov

\* the player entity is the one at index 0
C14_PlayerAtIndex0 ==
    /\ objects[PLAYER].name = "Player"
    /\ is_some(objects[PLAYER].fighter)
    /\ unwrap(objects[PLAYER].fighter).on_death = "Player"

\* C14 as stated: from a state in which the player is not alive, no step
\* changes any entity (no AI-tagged entity moves, the player stays as it is at
\* index 0) or logs an attack, the rest of the AI loop in progress included.
C14_Original ==
    /\ []C14_PlayerAtIndex0
    /\ [][~objects[PLAYER].alive =>
            /\ objects' = objects
            /\ messages' = messages]_vars

\* C14 amended: from a state in which the player is not alive, no step logs
\* an attack or changes the player, and no AI loop is started; what is left of
\* the AI loop in progress can still change the entity at its index, and then
\* only by that entity's move_towards step toward the player.
C14_AfterDeath ==
    ~objects[PLAYER].alive =>
       /\ messages' = messages
       /\ objects'[PLAYER] = objects[PLAYER]
       /\ DOMAIN objects' = DOMAIN objects
       /\ pc = "loop" => pc' # "ai"
       /\ \A i \in DOMAIN objects :
             objects'[i] # objects[i] =>
                LET step == unit_step(pos(objects[i]), pos(objects[PLAYER]))
                IN  /\ pc = "ai" /\ i = id
                    /\ is_some(objects[i].ai)
                    /\ pos(objects[i]) \in fov
                    /\ distance_ge_2(objects[i], objects[PLAYER])
                    /\ objects'[i] = set_position(objects[i], objects[i].x + step[1],
                                                  objects[i].y + step[2])

C14_DeathIsTerminal == []C14_PlayerAtIndex0 /\ [][C14_AfterDeath]_vars

\* C14's case: the player has died in the AI loop in progress, and the
\* monster whose turn is next is in the field of view, two or more cells away,
\* with the cell of its move_towards step free
C14_Witness ==
    /\ pc = "ai"
    /\ ~objects[PLAYER].alive
    /\ messages[Len(messages)].kind = "You died!"
    /\ is_some(objects[id].ai)
    /\ pos(objects[id]) \in fov
    /\ distance_ge_2(objects[id], objects[PLAYER])
    /\ LET step == unit_step(pos(objects[id]), pos(objects[PLAYER]))
           to == <<objects[id].x + step[1], objects[id].y + step[2]>>
       IN  ~wall_at(to) /\ ~blocker_at(objects, to, id)

\* a pass of the loop in which a living player's 'g' is handled
PickUpHandled ==
    /\ pc = "loop"
    /\ pc' # "done"
    /\ key' = "g"
    /\ objects[PLAYER].alive

\* the item-bearing entities on the player's cell
items_here(objs) ==
    {i \in DOMAIN objs : is_some(objs[i].item) /\ pos(objs[i]) = pos(objs[PLAYER])}

C15_Step ==
    PickUpHandled =>
       IF items_here(objects) = {}
       THEN objects' = objects /\ inventory' = inventory /\ messages' = messages
       ELSE Len(inventory) < INVENTORY_CAPACITY =>
               \E t \in items_here(objects) :
                  /\ len(objects') = len(objects) - 1
                  /\ inventory' = Append(inventory, objects[t])
                  /\ len(objects') + Len(inventory') = len(objects) + Len(inventory)
                  /\ \A i \in DOMAIN objects :
                        count(objects', objects[i]) =
                           count(objects, objects[i])
                              - (IF objects[i] = objects[t] THEN 1 ELSE 0)

\* C15: when a living player's 'g' is handled with room in the inventory and
\* an item-bearing entity on the player's cell, one such entity leaves the
\* objects and is appended, as it was, to the inventory; every other entity is
\* still among the objects with all its fields, so the two sizes add up to
\* what they did; with no item on the player's cell nothing changes.
C15_PickUpTransfer == [][C15_Step]_vars

\* C15's case: the item under the player has just been picked up, while a
\* living monster and the remains of another are still in the world
C15_Witness ==
    /\ pc = "loop"
    /\ key = "g"
    /\ Len(inventory) = 1
    /\ is_some(inventory[1].item)
    /\ pos(inventory[1]) = pos(objects[PLAYER])
    /\ messages[Len(messages)].kind = "You picked up a"
    /\ items_here(objects) = {}
    /\ \E i \in DOMAIN objects : is_some(objects[i].ai)
    /\ \E i \in DOMAIN objects : is_remains(objects[i])

----------------------------------------------------------------------------
(* Properties of one move_towards call (SpecMove).                         *)

sign(v) == IF v > 0 THEN 1 ELSE IF v < 0 THEN -1 ELSE 0

\* squared Euclidean distance between cells a and b
dist2(a, b) == (a[1] - b[1]) * (a[1] - b[1]) + (a[2] - b[2]) * (a[2] - b[2])

C16_Step ==
    pc = "move" =>
       LET me == objects[id]
           target == pos(objects[PLAYER])
           dx == target[1] - me.x
           dy == target[2] - me.y
           sx == round_unit(dx, dx * dx + dy * dy)
           sy == round_unit(dy, dx * dx + dy * dy)
           to == <<me.x + sx, me.y + sy>>
       IN  /\ sx \in {-1, 0, 1} /\ sy \in {-1, 0, 1}
           /\ <<sx, sy>> # <<0, 0>>
           /\ sx = (IF 3 * dx * dx >= dy * dy THEN sign(dx) ELSE 0)
           /\ sy = (IF 3 * dy * dy >= dx * dx THEN sign(dy) ELSE 0)
           /\ \A i \in DOMAIN objects : i # id => objects'[i] = objects[i]
           /\ IF wall_at(to) \/ blocker_at(objects, to, id)
              THEN objects'[id] = me
              ELSE /\ objects'[id] = set_position(me, to[1], to[2])
                   /\ dist2(pos(objects'[id]), target) < dist2(pos(me), target)

\* C16: for every displacement (dx,dy) # (0,0) from the mover to its target,
\* the step of move_towards has components in {-1,0,1}, is not (0,0), and has
\* on each axis the sign of the displacement exactly when three times its
\* square is at least the other axis' square, 0 otherwise; the mover ends on
\* the cell one step away, strictly closer to the target, or, when that cell
\* is a wall or held by a blocking entity, where it was.
C16_UnitStep == [][C16_Step]_vars

\* C16's case: the mover has stepped along the x axis only, toward a target
\* one row off (that component rounded to 0): it is now three columns away,
\* and it has moved, since from where it is now its step would not be blocked
C16_Witness ==
    /\ pc = "moved"
    /\ abs(objects[PLAYER].x - objects[id].x) = 3
    /\ abs(objects[PLAYER].y - objects[id].y) = 1
    /\ ~wall_at(<<objects[id].x + sign(objects[PLAYER].x - objects[id].x), objects[id].y>>)
    /\ \E c \in Cells : wall_at(c)

\* a pass of main's loop: render_all has run and a key has been handled
PassTaken == pc = "loop" /\ (pc' # "done" \/ action' = "Exit")

\* the field of view of the player's present position
fov_here ==
    compute_fov(objects[PLAYER].x, objects[PLAYER].y, TORCH_RADIUS, FOV_LIGHT_WALLS, map)

\* C18: in every pass of the main loop, the field of view render_all reads
\* (and leaves in tcod.fov) is the one computed from the position the player
\* has at that render, and the tiles it marks explored are that field's.
C18_DirtyFlagExact ==
    [][PassTaken =>
         /\ fov' = fov_here
         /\ \A x \in XS : \A y \in YS :
               map'[x][y].explored = (map[x][y].explored \/ <<x, y>> \in fov_here)]_vars

\* C18's case: the player has moved away from the spawn point, and the last
\* pass rendered without recomputing (the player stood where the pass before
\* had recorded it) and read the field of view of that position
C18_Witness ==
    /\ pc = "loop"
    /\ key \notin MoveKeys
    /\ action = "DidntTakeTurn"
    /\ pos(objects[PLAYER]) # center(rooms[1])
    /\ previous_player_position = pos(objects[PLAYER])
    /\ fov = fov_here
    /\ fov # compute_fov(center(rooms[1])[1], center(rooms[1])[2], TORCH_RADIUS,
                         FOV_LIGHT_WALLS, map)

\* the entity at index id moves or attacks in this step of the AI loop
acts_now ==
    /\ pc = "ai"
    /\ is_some(objects[id].ai)
    /\ pos(objects'[id]) # pos(objects[id]) \/ messages' # messages

\* C19: whenever the entity at the index of the AI loop moves or attacks, its
\* cell lies in the field of view computed from the position the player has
\* at that moment, after the player's action of this turn.
C19_ActsOnlyWhenVisible ==
    [][acts_now => pos(objects[id]) \in fov_here]_vars

\* C20: mut_two's assertion never fires, the entity at index 0 never carries
\* the AI tag, and no movement key makes the player its own attack target:
\* the first entity with combat statistics on the key's destination cell is
\* never the one at index 0.
C20_MutTwoDistinct ==
    /\ pc # "panicked"
    /\ objects[PLAYER].ai = None
    /\ \A k \in MoveKeys :
          LET x == objects[PLAYER].x + key_dx(k)
              y == objects[PLAYER].y + key_dy(k)
          IN  position({i \in DOMAIN objects :
                           is_some(objects[i].fighter) /\ pos(objects[i]) = <<x, y>>})
                 # Some(PLAYER)

\* C20's case: mut_two has just been called for a monster that stands on the
\* player's own cell and has attacked the player from there
C20_Witness ==
    /\ pc = "ai"
    /\ id >= 2
    /\ is_some(objects[id - 1].ai)
    /\ pos(objects[id - 1]) = pos(objects[PLAYER])
    /\ messages[Len(messages)] =
          Message("attacks for hit points.", objects[id - 1].name, "Player",
                  unwrap(objects[id - 1].fighter).power - 2, "WHITE")

----------------------------------------------------------------------------
(* Grid bounds (SpecGen).                                                  *)

\* the cells that are not on the outer border of the map
Inner == (1..(MAP_WIDTH - 2)) \X (1..(MAP_HEIGHT - 2))

\* the cells one step (along an axis or diagonally) from c, and c itself
around(c) == {<<c[1] + dx, c[2] + dy>> : dx \in {-1, 0, 1}, dy \in {-1, 0, 1}}

\* once a room is accepted: every non-wall tile is off the border, every
\* entity stands on a non-wall tile, and so every cell that a step from an
\* entity can ask is_blocked about is a cell of the grid
C21_InGrid ==
    rooms # <<>> =>
       /\ \A c \in Cells : ~map[c[1]][c[2]].blocked => c \in Inner
       /\ \A i \in DOMAIN objects :
             /\ pos(objects[i]) \in Inner
             /\ ~map[objects[i].x][objects[i].y].blocked
             /\ around(pos(objects[i])) \subseteq Cells

\* the cells place_objects can draw for the room just accepted, and the ends
\* of the corridor carved to it, are cells of the grid
C21_GenerationStep ==
    rooms' # rooms =>
       LET room == rooms'[Len(rooms')]
       IN  /\ 0 <= room.x1 /\ room.x2 <= MAP_WIDTH - 1
           /\ 0 <= room.y1 /\ room.y2 <= MAP_HEIGHT - 1
           /\ ((room.x1 + 1)..(room.x2 - 1)) \X ((room.y1 + 1)..(room.y2 - 1))
                 \subseteq Inner
           /\ center(room) \in Inner

----------------------------------------------------------------------------
(* Occupancy at the end of generation (SpecGen).                           *)

\* C22: once generation is over, no two distinct blocking entities are on the
\* same cell, and every blocking entity stands on a non-wall tile.
C22_BlockersApart ==
    pc = "loop" =>
       /\ \A i \in DOMAIN objects : \A j \in DOMAIN objects :
             (i # j /\ objects[i].blocks /\ objects[j].blocks)
                => pos(objects[i]) # pos(objects[j])
       /\ \A i \in DOMAIN objects :
             objects[i].blocks => ~map[objects[i].x][objects[i].y].blocked

----------------------------------------------------------------------------
(* The reserved slot (Spec).                                               *)

\* o has the Player death policy
is_player(o) == is_some(o.fighter) /\ unwrap(o.fighter).on_death = "Player"

\* C23: the entity at index 0 is the player, with the Player death policy,
\* no AI tag and no item payload, and it is the only entity with that policy
\* among the objects and in the inventory, whatever moves, attacks, deaths and
\* pick-ups have happened.
C23_PlayerSlot ==
    /\ objects[PLAYER].name = "Player"
    /\ is_player(objects[PLAYER])
    /\ objects[PLAYER].ai = None
    /\ objects[PLAYER].item = None
    /\ \A i \in DOMAIN objects : i # PLAYER => ~is_player(objects[i])
    /\ \A k \in 1..Len(inventory) : ~is_player(inventory[k])

\* C23's case: the item under the spawn point has been picked up from index
\* 1, swap_remove has put the last entity, another item, at that index, and
\* the player has moved on
C23_Witness ==
    /\ Len(inventory) = 1
    /\ pos(inventory[1]) = center(rooms[1])
    /\ len(objects) = 2
    /\ is_some(objects[1].item)
    /\ pos(objects[PLAYER]) # center(rooms[1])
    /\ is_player(objects[PLAYER])

====
